---------------------------- MODULE Spec2Model ----------------------------
(***************************************************************************)
(* A model of code.py: the three encoders huffman_compress,                *)
(* arithmetic_compress and lzw_compress, each run on one input byte        *)
(* sequence, together with the bit packing they share.                     *)
(*                                                                         *)
(* Bits are modelled as the integers 0 and 1 (the source uses the          *)
(* characters '0' and '1'), byte strings as sequences of integers 0..255.  *)
(* None is modelled as the empty sequence <<>> and a present value x as    *)
(* the one-element sequence <<x>>.                                         *)
(***************************************************************************)
EXTENDS Integers, Sequences, FiniteSets, TLC

VARIABLES
  alg,          \* which encoder main() is running
  pc,           \* position inside that encoder
  text_bytes,   \* the input
  i,            \* number of input bytes consumed by the encoder's main loop
  freq,         \* the freq dict: byte -> count
  heap,         \* huffman: the heapq list
  root,         \* huffman: <<>> (None) or <<node>>
  code_table,   \* huffman: byte -> sequence of bits
  cum_prob,     \* arithmetic: byte -> <<low, high>>
  low,          \* arithmetic: interval lower end (Decimal)
  high,         \* arithmetic: interval upper end (Decimal)
  value,        \* arithmetic: the running value of the doubling loop
  dictionary,   \* lzw: byte string -> code
  next_code,    \* lzw
  s,            \* lzw: the current match
  encoded,      \* lzw: the emitted codes
  bits,         \* encoded_bits / binary_str / bits_str before padding
  padded,       \* the same string after the padding was appended
  bytes_list,   \* the packed bytes
  result        \* <<>> until the encoder returns, then <<its result dict>>

vars == <<alg, pc, text_bytes, i, freq, heap, root, code_table, cum_prob, low,
          high, value, dictionary, next_code, s, encoded, bits, padded,
          bytes_list, result>>

---------------------------------------------------------------------------
(* Bounds of the model.                                                    *)

MaxLenHuffman == 6
MaxLenArith == 2
MaxLenLZW == 6

HuffmanAlphabet == {65, 66, 67, 90}
ArithAlphabet == {65, 66}
LZWAlphabet == {65, 66}

(* Program constants.                                                      *)

Prec == 1000
MaxBits == 1024
CodeWidth == 12
FirstCode == 256

---------------------------------------------------------------------------
(* Natural numbers of any size: little-endian sequences of limbs in        *)
(* 0..Base-1 without a most significant zero limb; <<>> is zero.  Every    *)
(* recursion below halves its range, so its depth is logarithmic.          *)

LimbDigits == 4
Base == 10000

Pow10(k) == CASE k = 0 -> 1 [] k = 1 -> 10 [] k = 2 -> 100 [] k = 3 -> 1000
              [] k = 4 -> 10000

Mid(lo, hi) == (lo + hi) \div 2

\* The sequence f with every element evaluated.  TLC keeps a function
\* constructor [k \in S |-> e] that it meets inside an application f[x]
\* unevaluated and evaluates e again at every use; the concatenation makes
\* it a tuple of values once.
Tuple(f) == f \o <<>>

Limb(c, k) == IF k >= 1 /\ k <= Len(c) THEN c[k] ELSE 0

RECURSIVE NatTop(_, _, _)
\* the highest index in lo..hi holding a non-zero limb, 0 when there is none
NatTop(c, lo, hi) ==
  IF lo > hi THEN 0
  ELSE IF lo = hi THEN (IF c[lo] # 0 THEN lo ELSE 0)
  ELSE LET r == NatTop(c, Mid(lo, hi) + 1, hi)
       IN  IF r # 0 THEN r ELSE NatTop(c, lo, Mid(lo, hi))

RECURSIVE NatLow(_, _, _)
\* the lowest index in lo..hi holding a non-zero limb, 0 when there is none
NatLow(c, lo, hi) ==
  IF lo > hi THEN 0
  ELSE IF lo = hi THEN (IF c[lo] # 0 THEN lo ELSE 0)
  ELSE LET l == NatLow(c, lo, Mid(lo, hi))
       IN  IF l # 0 THEN l ELSE NatLow(c, Mid(lo, hi) + 1, hi)

NatTrim(c) == SubSeq(c, 1, NatTop(c, 1, Len(c)))

NatFromInt(n) ==
  IF n = 0 THEN <<>>
  ELSE IF n < Base THEN <<n>>
  ELSE IF n < Base * Base THEN <<n % Base, n \div Base>>
  ELSE <<n % Base, (n \div Base) % Base, n \div (Base * Base)>>

NatToInt(c) ==
  IF Len(c) = 0 THEN 0
  ELSE IF Len(c) = 1 THEN c[1]
  ELSE c[1] + Base * c[2]

\* what a column (in 0..2*Base-2) does to a carry coming in: 0 absorbs it,
\* 1 passes it on, 2 produces one whatever comes in
Status(col) == IF col >= Base THEN 2 ELSE IF col = Base - 1 THEN 1 ELSE 0

RECURSIVE BlockStatus(_, _, _)
\* the same for the block of columns lo..hi
BlockStatus(cols, lo, hi) ==
  IF lo = hi THEN Status(cols[lo])
  ELSE LET r == BlockStatus(cols, Mid(lo, hi) + 1, hi)
       IN  IF r = 1 THEN BlockStatus(cols, lo, Mid(lo, hi)) ELSE r

CarryOut(status, cin) == IF status = 1 THEN cin ELSE IF status = 2 THEN 1 ELSE 0

\* the carry into column k, cin being the carry into column 1
CarryInto(cols, k, cin) ==
  IF k = 1 THEN cin
  ELSE IF Status(cols[k - 1]) # 1 \/ k = 2
  THEN CarryOut(Status(cols[k - 1]), cin)
  ELSE CarryOut(BlockStatus(cols, 1, k - 2), cin)

\* columns in 0..2*Base-2 and a carry in 0..1, as limbs with one more limb
\* for the carry out of the last column (untrimmed)
NatResolve(cols, cin) ==
  IF Len(cols) = 0 THEN <<cin>>
  ELSE Tuple([k \in 1..(Len(cols) + 1) |->
                IF k <= Len(cols) THEN (cols[k] + CarryInto(cols, k, cin)) % Base
                ELSE CarryInto(cols, k, cin)])

NatAdd(a, b) ==
  LET n == IF Len(a) >= Len(b) THEN Len(a) ELSE Len(b)
  IN  NatTrim(NatResolve(Tuple([k \in 1..n |-> Limb(a, k) + Limb(b, k)]), 0))

RECURSIVE NatTopDiff(_, _, _, _)
\* the highest index in lo..hi at which a and b differ, 0 when there is none
NatTopDiff(a, b, lo, hi) ==
  IF lo > hi THEN 0
  ELSE IF lo = hi THEN (IF a[lo] # b[lo] THEN lo ELSE 0)
  ELSE LET r == NatTopDiff(a, b, Mid(lo, hi) + 1, hi)
       IN  IF r # 0 THEN r ELSE NatTopDiff(a, b, lo, Mid(lo, hi))

\* a - b for a >= b: the limbs above the highest one in which they differ
\* cancel; below, a plus the complement of b, the carry out dropped
NatSub(a, b) ==
  LET n == IF Len(a) = Len(b) THEN NatTopDiff(a, b, 1, Len(a)) ELSE Len(a)
      r == NatResolve(Tuple([k \in 1..n |-> a[k] + (Base - 1 - Limb(b, k))]),
                      1)
  IN  NatTrim(SubSeq(r, 1, n))

\* -1, 0 or 1 as a < b, a = b or a > b
NatCmp(a, b) ==
  IF Len(a) # Len(b) THEN (IF Len(a) < Len(b) THEN -1 ELSE 1)
  ELSE LET k == NatTopDiff(a, b, 1, Len(a))
       IN  IF k = 0 THEN 0 ELSE IF a[k] < b[k] THEN -1 ELSE 1

RECURSIVE ColumnSum(_, _, _, _, _)
\* the part of column k of a * b that b's limbs lo..hi contribute: the low
\* halves of the limb products of weight k and the high halves of those of
\* weight k - 1
ColumnSum(a, b, k, lo, hi) ==
  IF lo > hi THEN 0
  ELSE IF lo = hi
  THEN ((Limb(a, k - lo + 1) * b[lo]) % Base)
         + ((Limb(a, k - lo) * b[lo]) \div Base)
  ELSE ColumnSum(a, b, k, lo, Mid(lo, hi))
         + ColumnSum(a, b, k, Mid(lo, hi) + 1, hi)

\* one pass of carrying: every column keeps its low limb and takes the
\* overflow of the column below
CarryPass(cols) ==
  Tuple([k \in 1..Len(cols) |->
           (cols[k] % Base) + (IF k = 1 THEN 0 ELSE cols[k - 1] \div Base)])

NatMul(a, b) ==
  IF Len(a) = 0 \/ Len(b) = 0 THEN <<>>
  ELSE LET n == Len(a)
           m == Len(b)
           cols == Tuple([k \in 1..(n + m) |->
                            ColumnSum(a, b, k,
                                      IF k - n > 1 THEN k - n ELSE 1,
                                      IF k < m THEN k ELSE m)])
       IN  NatTrim(NatResolve(CarryPass(CarryPass(cols)), 0))

\* the number of decimal digits of a trimmed natural
NatDigits(c) ==
  IF Len(c) = 0 THEN 0
  ELSE LET t == c[Len(c)]
       IN  LimbDigits * (Len(c) - 1)
             + (IF t >= 1000 THEN 4 ELSE IF t >= 100 THEN 3
                ELSE IF t >= 10 THEN 2 ELSE 1)

\* the decimal digit of weight 10^j
Dig(c, j) ==
  IF j < 0 THEN 0
  ELSE (Limb(c, (j \div LimbDigits) + 1) \div Pow10(j % LimbDigits)) % 10

\* c * 10^k for k >= 0, the integer part of c / 10^-k for k < 0
NatShift(c, k) ==
  LET nd == NatDigits(c) + k
      q == k \div LimbDigits
      r == k % LimbDigits
  IN  IF nd <= 0 THEN <<>>
      ELSE IF k = 0 THEN c
      ELSE Tuple([j \in 1..((nd + LimbDigits - 1) \div LimbDigits) |->
                    (Limb(c, j - q) % Pow10(LimbDigits - r)) * Pow10(r)
                      + (Limb(c, j - q - 1) \div Pow10(LimbDigits - r))])

\* the number of trailing decimal zeros of a non-zero natural
NatTrailingZeros(c) ==
  LET l == NatLow(c, 1, Len(c))
      t == c[l]
  IN  LimbDigits * (l - 1)
        + (IF t % 10 # 0 THEN 0 ELSE IF t % 100 # 0 THEN 1
           ELSE IF t % 1000 # 0 THEN 2 ELSE 3)

---------------------------------------------------------------------------
(* decimal.Decimal under getcontext().prec = Prec, by value: a record      *)
(* [neg, c, e] stands for (-1)^neg * c * 10^e with c a natural without     *)
(* trailing decimal zeros; zero is [neg |-> FALSE, c |-> <<>>, e |-> 0].   *)
(* Every arithmetic operation of the decimal module returns the exact      *)
(* result rounded to Prec significant digits, ties to even                 *)
(* (ROUND_HALF_EVEN, the default context's rounding).                      *)

DecZero == [neg |-> FALSE, c |-> <<>>, e |-> 0]

\* the exact value (-1)^neg * c * 10^e in canonical form
DecNorm(neg, c, e) ==
  IF Len(c) = 0 THEN DecZero
  ELSE LET tz == NatTrailingZeros(c)
       IN  [neg |-> neg, c |-> NatShift(c, -tz), e |-> e + tz]

\* Decimal(n) for an int n >= 0
Decimal(n) == DecNorm(FALSE, NatFromInt(n), 0)

\* the value (-1)^neg * c * 10^e rounded to Prec significant digits
DecRound(neg, c, e) ==
  LET n == NatDigits(c)
      k == n - Prec
  IN  IF k <= 0 THEN DecNorm(neg, c, e)
      ELSE LET q == NatShift(c, -k)
               rd == Dig(c, k - 1)
               sticky == NatTrailingZeros(c) < k - 1
               up == rd > 5 \/ (rd = 5 /\ (sticky \/ Dig(c, k) % 2 = 1))
           IN  DecNorm(neg, IF up THEN NatAdd(q, <<1>>) ELSE q, e + k)

\* -1, 0 or 1 as |x| < |y|, |x| = |y| or |x| > |y|
DecCmpAbs(x, y) ==
  IF Len(x.c) = 0 \/ Len(y.c) = 0
  THEN (IF Len(x.c) # 0 THEN 1 ELSE IF Len(y.c) # 0 THEN -1 ELSE 0)
  ELSE LET mx == NatDigits(x.c) + x.e
           my == NatDigits(y.c) + y.e
           e == IF x.e < y.e THEN x.e ELSE y.e
       IN  IF mx # my THEN (IF mx < my THEN -1 ELSE 1)
           ELSE NatCmp(NatShift(x.c, x.e - e), NatShift(y.c, y.e - e))

DecCmp(x, y) ==
  IF x.neg # y.neg THEN (IF x.neg THEN -1 ELSE 1)
  ELSE IF x.neg THEN DecCmpAbs(y, x) ELSE DecCmpAbs(x, y)

DecLt(x, y) == DecCmp(x, y) < 0
DecLe(x, y) == DecCmp(x, y) <= 0

\* x + y, exact
DecAddExact(x, y) ==
  IF Len(x.c) = 0 THEN y
  ELSE IF Len(y.c) = 0 THEN x
  ELSE LET e == IF x.e < y.e THEN x.e ELSE y.e
           cx == NatShift(x.c, x.e - e)
           cy == NatShift(y.c, y.e - e)
           cmp == NatCmp(cx, cy)
       IN  IF x.neg = y.neg THEN [neg |-> x.neg, c |-> NatAdd(cx, cy), e |-> e]
           ELSE IF cmp = 0 THEN DecZero
           ELSE IF cmp > 0 THEN [neg |-> x.neg, c |-> NatSub(cx, cy), e |-> e]
           ELSE [neg |-> y.neg, c |-> NatSub(cy, cx), e |-> e]

DecNeg(x) == IF Len(x.c) = 0 THEN x ELSE [x EXCEPT !.neg = ~x.neg]

\* Decimal.__add__, __sub__ and __mul__
DecAdd(x, y) == LET r == DecAddExact(x, y) IN DecRound(r.neg, r.c, r.e)
DecSub(x, y) == DecAdd(x, DecNeg(y))
DecMul(x, y) == DecRound(x.neg # y.neg, NatMul(x.c, y.c), x.e + y.e)

RECURSIVE QuotientLimbs(_, _, _)
\* the first n base-Base limbs of the fraction r / q (0 <= r < q), most
\* significant first, followed by the remainder left after them
QuotientLimbs(r, q, n) ==
  IF n = 0 THEN <<r>>
  ELSE IF n = 1 THEN <<(r * Base) \div q, (r * Base) % q>>
  ELSE LET h == n \div 2
           front == QuotientLimbs(r, q, h)
       IN  SubSeq(front, 1, h) \o QuotientLimbs(front[h + 1], q, n - h)

\* Decimal(p) / Decimal(q) for ints p >= 0 and 0 < q < Base * Base: long
\* division to more than Prec significant digits; a remainder left over is
\* kept as one more non-zero digit so that the rounding sees it
DecDivInt(p, q) ==
  LET n == (Prec \div LimbDigits) + 4
      f == QuotientLimbs(p % q, q, n)
      c == NatTrim([k \in 1..n |-> f[n + 1 - k]] \o NatFromInt(p \div q))
  IN  IF f[n + 1] = 0 THEN DecRound(FALSE, c, -(LimbDigits * n))
      ELSE DecRound(FALSE, NatAdd(NatShift(c, 1), <<1>>), -(LimbDigits * n) - 1)

\* int(x): the integer part, towards zero (of a value below Base * Base)
DecToInt(x) ==
  LET m == NatToInt(NatShift(x.c, x.e)) IN IF x.neg THEN -m ELSE m

---------------------------------------------------------------------------
(* What the three encoders share: the frequency count, the padding, the    *)
(* packing into bytes and the result record.                               *)

\* for byte in text_bytes: freq[byte] += 1
CountFreq(text) ==
  [b \in {text[k] : k \in 1..Len(text)} |->
     Cardinality({k \in 1..Len(text) : text[k] = b})]

\* a padding without the `if padding != 8` test
PaddingAlways(n) == 8 - (n % 8)

\* the number of zero bits appended to a bit string of length n
Padding(n) == IF 8 - (n % 8) # 8 THEN 8 - (n % 8) ELSE 0

\* padding = 8 - (len(b) % 8); if padding != 8: b += '0' * padding
PadBits(b) == b \o [k \in 1..Padding(Len(b)) |-> 0]

RECURSIVE BinValue(_)
\* int(chunk, 2)
BinValue(chunk) ==
  IF Len(chunk) = 0 THEN 0
  ELSE 2 * BinValue(SubSeq(chunk, 1, Len(chunk) - 1)) + chunk[Len(chunk)]

\* [int(b[i:i+8], 2) for i in range(0, len(b), 8)]
PackBytes(b) ==
  Tuple([k \in 1..((Len(b) + 7) \div 8) |->
           BinValue(SubSeq(b, 8 * (k - 1) + 1,
                           IF 8 * k < Len(b) THEN 8 * k ELSE Len(b)))])

\* the dict every encoder returns; the ratio (a float in the source) is kept
\* as the fraction it is computed from
ResultRecord(text, packed) ==
  [original_size |-> Len(text),
   compressed_size |-> Len(packed),
   compression_ratio |-> IF Len(text) # 0
                         THEN [num |-> Len(packed), den |-> Len(text)]
                         ELSE [num |-> 0, den |-> 1],
   time |-> 0]

RECURSIVE Flatten(_, _, _)
\* ''.join(parts[lo..hi])
Flatten(parts, lo, hi) ==
  IF lo > hi THEN <<>>
  ELSE IF lo = hi THEN parts[lo]
  ELSE Flatten(parts, lo, Mid(lo, hi)) \o Flatten(parts, Mid(lo, hi) + 1, hi)

---------------------------------------------------------------------------
(* huffman_compress                                                        *)

\* HuffmanNode(freq, byte, left, right)
HuffmanNode(f, byte, left, right) ==
  [freq |-> f, byte |-> byte, left |-> left, right |-> right]

\* a __lt__ that compares the wrong way round
NodeLtReversed(a, b) == a.freq > b.freq

\* HuffmanNode.__lt__
NodeLt(a, b) == a.freq < b.freq

\* freq.items(): a dict iterates in the order its keys were first inserted
FreqItems(text, f) ==
  LET firsts == SelectSeq([k \in 1..Len(text) |-> k],
                          LAMBDA k : \A j \in 1..(k - 1) : text[j] # text[k])
  IN  Tuple([r \in 1..Len(firsts) |-> <<text[firsts[r]], f[text[firsts[r]]]>>])

RECURSIVE SiftDown(_, _, _, _)
\* heapq._siftdown: positions are 0-based as in the library, newitem is
\* the item that heap[pos] held on entry
SiftDown(h, startpos, pos, newitem) ==
  IF pos > startpos /\ NodeLt(newitem, h[((pos - 1) \div 2) + 1])
  THEN SiftDown([h EXCEPT ![pos + 1] = h[((pos - 1) \div 2) + 1]],
                startpos, (pos - 1) \div 2, newitem)
  ELSE [h EXCEPT ![pos + 1] = newitem]

RECURSIVE SiftUp(_, _, _, _)
\* heapq._siftup: the smaller child is moved up until a leaf is reached,
\* where newitem is put and sifted down to its place
SiftUp(h, startpos, pos, newitem) ==
  LET endpos == Len(h)
      childpos == 2 * pos + 1
      rightpos == childpos + 1
      c == IF rightpos < endpos /\ ~NodeLt(h[childpos + 1], h[rightpos + 1])
           THEN rightpos ELSE childpos
  IN  IF childpos < endpos
      THEN SiftUp([h EXCEPT ![pos + 1] = h[c + 1]], startpos, c, newitem)
      ELSE SiftDown([h EXCEPT ![pos + 1] = newitem], startpos, pos, newitem)

\* heapq.heappush(h, item): the heap after the push
HeapPush(h, item) == SiftDown(Append(h, item), 0, Len(h), item)

\* heapq.heappop(h) on a non-empty heap: <<the item returned, the heap left>>
HeapPop(h) ==
  LET lastelt == h[Len(h)]
      rest == SubSeq(h, 1, Len(h) - 1)
  IN  IF Len(rest) # 0
      THEN <<rest[1], SiftUp([rest EXCEPT ![1] = lastelt], 0, 0, lastelt)>>
      ELSE <<lastelt, rest>>

\* one turn of the while loop: two pops, the merged node pushed
MergeStep(h) ==
  LET p1 == HeapPop(h)
      p2 == HeapPop(p1[2])
  IN  HeapPush(p2[2],
               HuffmanNode(p1[1].freq + p2[1].freq, <<>>, <<p1[1]>>, <<p2[1]>>))

RECURSIVE BuildCodeNoLeftBit(_, _)
\* a build_code that goes into the left child without appending '0'
BuildCodeNoLeftBit(node, current_code) ==
  IF Len(node) = 0 THEN <<>>
  ELSE IF Len(node[1].byte) # 0 THEN (node[1].byte[1] :> current_code)
  ELSE BuildCodeNoLeftBit(node[1].right, Append(current_code, 1))
         @@ BuildCodeNoLeftBit(node[1].left, current_code)

RECURSIVE BuildCode(_, _)
\* build_code(node, current_code) as the entries it writes to code_table;
\* node is <<>> (None) or <<a node>>, a later write replaces an earlier one
BuildCode(node, current_code) ==
  IF Len(node) = 0 THEN <<>>
  ELSE IF Len(node[1].byte) # 0 THEN (node[1].byte[1] :> current_code)
  ELSE BuildCode(node[1].right, Append(current_code, 1))
         @@ BuildCode(node[1].left, Append(current_code, 0))

\* ''.join([code_table[byte] for byte in text_bytes])
EncodeBits(text, table) ==
  Flatten(Tuple([k \in 1..Len(text) |-> table[text[k]]]), 1, Len(text))

HuffCount ==
  /\ alg = "huffman" /\ pc = "count"
  /\ freq' = CountFreq(text_bytes)
  /\ pc' = "build"
  /\ UNCHANGED <<alg, text_bytes, i, heap, root, code_table, cum_prob, low, high,
                 value, dictionary, next_code, s, encoded, bits, padded,
                 bytes_list, result>>

HuffPush ==
  /\ alg = "huffman" /\ pc = "build"
  /\ i < Len(FreqItems(text_bytes, freq))
  /\ LET item == FreqItems(text_bytes, freq)[i + 1]
     IN  heap' = HeapPush(heap, HuffmanNode(item[2], <<item[1]>>, <<>>, <<>>))
  /\ i' = i + 1
  /\ UNCHANGED <<alg, pc, text_bytes, freq, root, code_table, cum_prob, low,
                 high, value, dictionary, next_code, s, encoded, bits, padded,
                 bytes_list, result>>

HuffMerge ==
  /\ alg = "huffman" /\ pc = "build"
  /\ i = Len(FreqItems(text_bytes, freq))
  /\ Len(heap) > 1
  /\ heap' = MergeStep(heap)
  /\ UNCHANGED <<alg, pc, text_bytes, i, freq, root, code_table, cum_prob, low,
                 high, value, dictionary, next_code, s, encoded, bits, padded,
                 bytes_list, result>>

HuffBuildCode ==
  /\ alg = "huffman" /\ pc = "build"
  /\ i = Len(FreqItems(text_bytes, freq))
  /\ Len(heap) <= 1
  /\ LET r == IF Len(heap) # 0 THEN <<HeapPop(heap)[1]>> ELSE <<>>
     IN  /\ root' = r
         /\ heap' = IF Len(heap) # 0 THEN HeapPop(heap)[2] ELSE heap
         /\ code_table' = BuildCode(r, <<>>)
  /\ pc' = "encode"
  /\ UNCHANGED <<alg, text_bytes, i, freq, cum_prob, low, high, value,
                 dictionary, next_code, s, encoded, bits, padded, bytes_list,
                 result>>

HuffEncode ==
  /\ alg = "huffman" /\ pc = "encode"
  /\ bits' = EncodeBits(text_bytes, code_table)
  /\ padded' = PadBits(bits')
  /\ bytes_list' = PackBytes(padded')
  /\ pc' = "return"
  /\ UNCHANGED <<alg, text_bytes, i, freq, heap, root, code_table, cum_prob, low,
                 high, value, dictionary, next_code, s, encoded, result>>

HuffReturn ==
  /\ alg = "huffman" /\ pc = "return"
  /\ result' = <<ResultRecord(text_bytes, bytes_list)>>
  /\ pc' = "done"
  /\ UNCHANGED <<alg, text_bytes, i, freq, heap, root, code_table, cum_prob, low,
                 high, value, dictionary, next_code, s, encoded, bits, padded,
                 bytes_list>>

NextHuffman ==
  HuffCount \/ HuffPush \/ HuffMerge \/ HuffBuildCode \/ HuffEncode \/ HuffReturn

---------------------------------------------------------------------------
(* arithmetic_compress                                                     *)

\* sorted(f.keys()) for a dict keyed by bytes
SortedKeys(f) ==
  SelectSeq([k \in 1..256 |-> k - 1], LAMBDA b : b \in DOMAIN f)

RECURSIVE SumCounts(_, _, _, _)
\* sum(freq.values()), over keys[lo..hi]
SumCounts(f, keys, lo, hi) ==
  IF lo > hi THEN 0
  ELSE IF lo = hi THEN f[keys[lo]]
  ELSE SumCounts(f, keys, lo, Mid(lo, hi))
         + SumCounts(f, keys, Mid(lo, hi) + 1, hi)

Total(f) == SumCounts(f, SortedKeys(f), 1, Len(SortedKeys(f)))

RECURSIVE CumIntervals(_, _, _, _, _, _)
\* the loop over sorted(freq.keys()) for keys[lo..hi], entered with
\* `current`: the <<current, current + prob>> pairs it stores, in key order.
\* The value of current after one key is the upper end stored for it.
CumIntervals(f, total, keys, lo, hi, current) ==
  IF lo > hi THEN <<>>
  ELSE IF lo = hi
  THEN << <<current, DecAdd(current, DecDivInt(f[keys[lo]], total))>> >>
  ELSE LET front == CumIntervals(f, total, keys, lo, Mid(lo, hi), current)
       IN  front \o CumIntervals(f, total, keys, Mid(lo, hi) + 1, hi,
                                 front[Len(front)][2])

\* cum_prob as built by lines 102-110
CumProb(f) ==
  LET keys == SortedKeys(f)
      iv == CumIntervals(f, Total(f), keys, 1, Len(keys), Decimal(0))
  IN  [b \in DOMAIN f |->
         iv[CHOOSE k \in 1..Len(keys) : keys[k] = b]]

\* one turn of the narrowing loop: <<low, high>> after the byte
Narrow(lo, hi, interval) ==
  LET char_low == interval[1]
      char_high == interval[2]
      range_size == DecSub(hi, lo)
  IN  <<DecAdd(lo, DecMul(range_size, char_low)),
        DecAdd(lo, DecMul(range_size, char_high))>>

\* value *= 2
Doubled(v) == DecMul(v, Decimal(2))

ArithModel ==
  /\ alg = "arithmetic" /\ pc = "count"
  /\ freq' = CountFreq(text_bytes)
  /\ cum_prob' = CumProb(freq')
  /\ low' = Decimal(0)
  /\ high' = Decimal(1)
  /\ pc' = "narrow"
  /\ UNCHANGED <<alg, text_bytes, i, heap, root, code_table, value, dictionary,
                 next_code, s, encoded, bits, padded, bytes_list, result>>

ArithNarrow ==
  /\ alg = "arithmetic" /\ pc = "narrow"
  /\ i < Len(text_bytes)
  /\ LET n == Narrow(low, high, cum_prob[text_bytes[i + 1]])
     IN  low' = n[1] /\ high' = n[2]
  /\ i' = i + 1
  /\ UNCHANGED <<alg, pc, text_bytes, freq, heap, root, code_table, cum_prob,
                 value, dictionary, next_code, s, encoded, bits, padded,
                 bytes_list, result>>

ArithValue ==
  /\ alg = "arithmetic" /\ pc = "narrow"
  /\ i = Len(text_bytes)
  /\ value' = low
  /\ bits' = <<>>
  /\ pc' = "bits"
  /\ UNCHANGED <<alg, text_bytes, i, freq, heap, root, code_table, cum_prob, low,
                 high, dictionary, next_code, s, encoded, padded, bytes_list,
                 result>>

\* one turn of `for _ in range(1024)`
ArithBit ==
  /\ alg = "arithmetic" /\ pc = "bits"
  /\ LET doubled == Doubled(value)
         bit == DecToInt(doubled)
     IN  /\ bits' = Append(bits, bit)
         /\ value' = DecSub(doubled, Decimal(bit))
  /\ pc' = IF value' = DecZero \/ Len(bits') = MaxBits THEN "pack" ELSE "bits"
  /\ UNCHANGED <<alg, text_bytes, i, freq, heap, root, code_table, cum_prob, low,
                 high, dictionary, next_code, s, encoded, padded, bytes_list,
                 result>>

ArithPack ==
  /\ alg = "arithmetic" /\ pc = "pack"
  /\ padded' = PadBits(bits)
  /\ bytes_list' = PackBytes(padded')
  /\ pc' = "return"
  /\ UNCHANGED <<alg, text_bytes, i, freq, heap, root, code_table, cum_prob, low,
                 high, value, dictionary, next_code, s, encoded, bits, result>>

ArithReturn ==
  /\ alg = "arithmetic" /\ pc = "return"
  /\ result' = <<ResultRecord(text_bytes, bytes_list)>>
  /\ pc' = "done"
  /\ UNCHANGED <<alg, text_bytes, i, freq, heap, root, code_table, cum_prob, low,
                 high, value, dictionary, next_code, s, encoded, bits, padded,
                 bytes_list>>

NextArith ==
  ArithModel \/ ArithNarrow \/ ArithValue \/ ArithBit \/ ArithPack \/ ArithReturn

---------------------------------------------------------------------------
(* lzw_compress                                                            *)

\* {bytes([i]): i for i in range(256)}
InitialDictionary == [k \in {<<b>> : b \in 0..(FirstCode - 1)} |-> k[1]]

\* an insertion that stores the code after the increment of next_code
DictSetAfterIncrement(d, key, code) == (key :> (code + 1)) @@ d

\* dictionary[key] = code
DictSet(d, key, code) == (key :> code) @@ d

RECURSIVE Binary(_)
\* the binary digits of n >= 0, most significant first
Binary(n) == IF n < 2 THEN <<n>> ELSE Append(Binary(n \div 2), n % 2)

\* format(code, '012b'): the binary digits, zero-filled on the left to a
\* width of at least CodeWidth
Format012b(code) ==
  LET digits == Binary(code)
  IN  IF Len(digits) >= CodeWidth THEN digits
      ELSE [k \in 1..(CodeWidth - Len(digits)) |-> 0] \o digits

\* ''.join([format(code, '012b') for code in encoded])
CodeBits(codes) ==
  Flatten(Tuple([k \in 1..Len(codes) |-> Format012b(codes[k])]), 1, Len(codes))

\* the locals of the loop, as a record
LZWLocals(str, enc, d, nc) ==
  [s |-> str, encoded |-> enc, dictionary |-> d, next_code |-> nc]

\* the body of `for byte in text_bytes` for one byte: the locals after it
LZWByte(st, byte) ==
  LET sc == Append(st.s, byte)
  IN  IF sc \in DOMAIN st.dictionary
      THEN [st EXCEPT !.s = sc]
      ELSE LZWLocals(<<byte>>,
                     Append(st.encoded, st.dictionary[st.s]),
                     DictSet(st.dictionary, sc, st.next_code),
                     st.next_code + 1)

RECURSIVE LZWBytes(_, _, _, _)
\* the loop over text[lo..hi], entered with the locals st.  TLC evaluates
\* an operator's argument when it is first used: the test on next_code,
\* which never decreases, has the first half of the range evaluated before
\* the second half is entered and keeps the evaluation depth logarithmic.
LZWBytes(st, text, lo, hi) ==
  IF lo > hi THEN st
  ELSE IF lo = hi THEN LZWByte(st, text[lo])
  ELSE LET front == LZWBytes(st, text, lo, Mid(lo, hi))
       IN  IF front.next_code >= st.next_code
           THEN LZWBytes(front, text, Mid(lo, hi) + 1, hi)
           ELSE front

\* an end of the loop without the `if s:` flush of the last match
FlushedNothing(enc, d, str) == enc

\* if s: encoded.append(dictionary[s])
Flushed(enc, d, str) == IF Len(str) # 0 THEN Append(enc, d[str]) ELSE enc

\* one turn of the loop
LZWStep ==
  /\ alg = "lzw" /\ pc = "loop"
  /\ i < Len(text_bytes)
  /\ LET st == LZWByte(LZWLocals(s, encoded, dictionary, next_code),
                       text_bytes[i + 1])
     IN  /\ s' = st.s
         /\ encoded' = st.encoded
         /\ dictionary' = st.dictionary
         /\ next_code' = st.next_code
  /\ i' = i + 1
  /\ UNCHANGED <<alg, pc, text_bytes, freq, heap, root, code_table, cum_prob,
                 low, high, value, bits, padded, bytes_list, result>>

LZWFlush ==
  /\ alg = "lzw" /\ pc = "loop"
  /\ i = Len(text_bytes)
  /\ encoded' = Flushed(encoded, dictionary, s)
  /\ pc' = "pack"
  /\ UNCHANGED <<alg, text_bytes, i, freq, heap, root, code_table, cum_prob, low,
                 high, value, dictionary, next_code, s, bits, padded, bytes_list,
                 result>>

\* the whole loop and the flush after it, in one step
LZWLoop ==
  /\ alg = "lzw" /\ pc = "loop"
  /\ i = 0
  /\ LET st == LZWBytes(LZWLocals(s, encoded, dictionary, next_code),
                        text_bytes, 1, Len(text_bytes))
     IN  /\ s' = st.s
         /\ encoded' = Flushed(st.encoded, st.dictionary, st.s)
         /\ dictionary' = st.dictionary
         /\ next_code' = st.next_code
  /\ i' = Len(text_bytes)
  /\ pc' = "pack"
  /\ UNCHANGED <<alg, text_bytes, freq, heap, root, code_table, cum_prob, low,
                 high, value, bits, padded, bytes_list, result>>

LZWPack ==
  /\ alg = "lzw" /\ pc = "pack"
  /\ bits' = CodeBits(encoded)
  /\ padded' = PadBits(bits')
  /\ bytes_list' = PackBytes(padded')
  /\ pc' = "return"
  /\ UNCHANGED <<alg, text_bytes, i, freq, heap, root, code_table, cum_prob, low,
                 high, value, dictionary, next_code, s, encoded, result>>

LZWReturn ==
  /\ alg = "lzw" /\ pc = "return"
  /\ result' = <<ResultRecord(text_bytes, bytes_list)>>
  /\ pc' = "done"
  /\ UNCHANGED <<alg, text_bytes, i, freq, heap, root, code_table, cum_prob, low,
                 high, value, dictionary, next_code, s, encoded, bits, padded,
                 bytes_list>>

NextLZW == LZWStep \/ LZWFlush \/ LZWPack \/ LZWReturn

\* the same with the loop taken in one step
NextLZWLoop == LZWLoop \/ LZWPack \/ LZWReturn

---------------------------------------------------------------------------
(* The inputs and the specifications.                                      *)

\* every byte sequence over `alphabet` of length at most n
BoundedInputs(alphabet, n) == UNION {[1..k -> alphabet] : k \in 0..n}

\* the inputs the specification's scenarios name: b"AAAAABBBCC" and b"ZZZZ"
ScenarioInputs ==
  { <<65, 65, 65, 65, 65, 66, 66, 66, 67, 67>>, <<90, 90, 90, 90>> }

\* 128 distinct symbols, each four times: an ASCII text of 512 bytes
LongArithInput == Tuple([k \in 1..512 |-> (k - 1) % 128])

\* an ASCII text in which no two adjacent bytes occur twice as a pair: runs
\* of 128 bytes stepping by 1, 3, 5, ... modulo 128
PairWalk(n) ==
  Tuple([k \in 1..n |-> (((k - 1) % 128) * (2 * ((k - 1) \div 128) + 1)) % 128])

\* the shortest such text that fills the dictionary up to code 2^CodeWidth,
\* followed by its last pair once more
LongLZWInput ==
  LET n == (2 ^ CodeWidth - FirstCode) + 2
  IN  PairWalk(n) \o <<PairWalk(n)[n - 1], PairWalk(n)[n]>>

InitWith(a, text) ==
  /\ alg = a
  /\ text_bytes = text
  /\ pc = IF a = "lzw" THEN "loop" ELSE "count"
  /\ i = 0
  /\ freq = <<>>
  /\ heap = <<>>
  /\ root = <<>>
  /\ code_table = <<>>
  /\ cum_prob = <<>>
  /\ low = DecZero
  /\ high = DecZero
  /\ value = DecZero
  /\ dictionary = IF a = "lzw" THEN InitialDictionary ELSE <<>>
  /\ next_code = IF a = "lzw" THEN FirstCode ELSE 0
  /\ s = <<>>
  /\ encoded = <<>>
  /\ bits = <<>>
  /\ padded = <<>>
  /\ bytes_list = <<>>
  /\ result = <<>>

HuffmanInputs == BoundedInputs(HuffmanAlphabet, MaxLenHuffman) \cup ScenarioInputs
ArithInputs == BoundedInputs(ArithAlphabet, MaxLenArith) \cup ScenarioInputs
LZWInputs == BoundedInputs(LZWAlphabet, MaxLenLZW) \cup ScenarioInputs

Init ==
  \/ \E text \in HuffmanInputs : InitWith("huffman", text)
  \/ \E text \in ArithInputs : InitWith("arithmetic", text)
  \/ \E text \in LZWInputs : InitWith("lzw", text)

Next == NextHuffman \/ NextArith \/ NextLZW

\* every encoder on every short input
Spec == Init /\ [][Next]_vars

\* arithmetic_compress on the long input
InitArithLong == InitWith("arithmetic", LongArithInput)
SpecArithLong == InitArithLong /\ [][NextArith]_vars

\* lzw_compress on the short inputs and on the long one
InitLZWLong == \E text \in LZWInputs \cup {LongLZWInput} : InitWith("lzw", text)
SpecLZWLong == InitLZWLong /\ [][NextLZWLoop]_vars

---------------------------------------------------------------------------
(* The properties.                                                         *)

\* the symbols present in the input
Symbols(text) == {text[k] : k \in 1..Len(text)}

\* the number of occurrences of byte b in the input
Occurrences(text, b) == Cardinality({k \in 1..Len(text) : text[k] = b})

IsPrefix(p, q) == Len(p) <= Len(q) /\ SubSeq(q, 1, Len(p)) = p

RECURSIVE CodeLengthSum(_, _, _, _)
\* the sum over text[lo..hi] of the length of each byte's code: the sum
\* over the symbols of frequency times code length
CodeLengthSum(text, table, lo, hi) ==
  IF lo > hi THEN 0
  ELSE IF lo = hi THEN Len(table[text[lo]])
  ELSE CodeLengthSum(text, table, lo, Mid(lo, hi))
         + CodeLengthSum(text, table, Mid(lo, hi) + 1, hi)

RECURSIVE Pow2Nat(_)
\* 2^n as a natural
Pow2Nat(n) ==
  IF n < 13 THEN NatFromInt(2 ^ n)
  ELSE LET h == Pow2Nat(n \div 2)
       IN  NatMul(NatMul(h, h), NatFromInt(2 ^ (n % 2)))

RECURSIVE BitsNat(_, _, _)
\* the natural whose binary digits are b[lo..hi], most significant first
BitsNat(b, lo, hi) ==
  IF lo > hi THEN <<>>
  ELSE IF lo = hi THEN NatFromInt(b[lo])
  ELSE NatAdd(NatMul(BitsNat(b, lo, Mid(lo, hi)), Pow2Nat(hi - Mid(lo, hi))),
              BitsNat(b, Mid(lo, hi) + 1, hi))

\* -1, 0 or 1 as the Decimal x >= 0 is below, equal to or above the binary
\* fraction 0.b1b2...bL, compared exactly: x.c * 10^x.e * 2^L against the
\* natural b1b2...bL, both scaled by a power of ten to integers
FractionCmp(x, b) ==
  LET e == IF x.e < 0 THEN x.e ELSE 0
  IN  NatCmp(NatShift(NatMul(x.c, Pow2Nat(Len(b))), x.e - e),
             NatShift(BitsNat(b, 1, Len(b)), -e))

\* the byte string the dictionary d maps to `code`
CodeString(d, code) == CHOOSE key \in DOMAIN d : d[key] = code

\* every code replaced by its string, the strings concatenated
Decoded(d, codes) ==
  Flatten(Tuple([k \in 1..Len(codes) |-> CodeString(d, codes[k])]),
          1, Len(codes))

\* C1: for every non-empty input, the code table huffman_compress has built
\* holds a code for every symbol of the input, and no symbol's code is a
\* prefix of (or equal to) the code of a different symbol.
C1_PrefixFree ==
  (alg = "huffman" /\ pc \in {"encode", "return", "done"}
     /\ Len(text_bytes) > 0) =>
    /\ Symbols(text_bytes) \subseteq DOMAIN code_table
    /\ \A a, b \in Symbols(text_bytes) :
         a # b => ~IsPrefix(code_table[a], code_table[b])

\* huffman_compress has returned on an input of three or more symbols whose
\* codes differ in length
C1_Witness ==
  /\ alg = "huffman" /\ pc = "done"
  /\ Cardinality(Symbols(text_bytes)) >= 3
  /\ \E a, b \in Symbols(text_bytes) :
       Len(code_table[a]) < Len(code_table[b])

\* C2: on the empty input each of the three encoders returns a zero-sized
\* result: original_size 0, compressed_size 0 with no output byte, and
\* compression_ratio 0.
C2_EmptyInputZeroSized ==
  (pc = "done" /\ Len(text_bytes) = 0) =>
    /\ result[1].original_size = 0
    /\ result[1].compressed_size = 0
    /\ Len(bytes_list) = 0
    /\ result[1].compression_ratio.num = 0

\* C3: on an input of one distinct byte value repeated n >= 1 times,
\* huffman_compress gives that symbol a code of at least one bit and
\* returns a compressed_size of at least 1.
C3_SingleSymbolCoded ==
  (alg = "huffman" /\ pc = "done"
     /\ Cardinality(Symbols(text_bytes)) = 1) =>
    /\ \A a \in Symbols(text_bytes) :
         a \in DOMAIN code_table /\ Len(code_table[a]) >= 1
    /\ result[1].compressed_size >= 1

\* C4: every code lzw_compress emits is below 2^12 and is written as a
\* field of exactly 12 bits holding its value, so that the bit string
\* before padding is 12 times as long as the code sequence.
C4_TwelveBitFields ==
  (alg = "lzw" /\ pc = "done") =>
    /\ \A k \in 1..Len(encoded) : encoded[k] < 2 ^ CodeWidth
    /\ Len(bits) = CodeWidth * Len(encoded)
    /\ \A k \in 1..Len(encoded) :
         BinValue(SubSeq(bits, CodeWidth * (k - 1) + 1, CodeWidth * k))
           = encoded[k]

\* C5: for every non-empty input, the binary fraction 0.b1b2b3... that
\* arithmetic_compress emits lies in the final interval: low <= v < high.
C5_EmittedValueInInterval ==
  (alg = "arithmetic" /\ pc = "done" /\ Len(text_bytes) > 0) =>
    /\ FractionCmp(low, bits) <= 0
    /\ FractionCmp(high, bits) > 0

\* C6: in each encoder the packed bit string is the unpadded one followed
\* by p zero bits, 0 <= p <= 7, p the least number that makes the length a
\* multiple of 8; there is one output byte for every 8 bits, and each
\* byte's value is its 8 bits read most significant first.
C6_PaddingAndPacking ==
  (pc \in {"return", "done"}) =>
    /\ (Len(padded) - Len(bits)) \in 0..7
    /\ Len(padded) % 8 = 0
    /\ SubSeq(padded, 1, Len(bits)) = bits
    /\ \A k \in (Len(bits) + 1)..Len(padded) : padded[k] = 0
    /\ 8 * Len(bytes_list) = Len(padded)
    /\ \A k \in 1..Len(bytes_list) :
         /\ bytes_list[k] \in 0..255
         /\ \A j \in 1..8 :
              (bytes_list[k] \div (2 ^ (8 - j))) % 2 = padded[8 * (k - 1) + j]

\* an encoder has returned two or more bytes, the last one holding padding
\* after a one bit
C6_Witness ==
  /\ pc = "done"
  /\ (Len(padded) - Len(bits)) \in 1..7
  /\ Len(bytes_list) >= 2
  /\ bits[Len(bits)] = 1

\* C7: for every input, short or longer than the 12-bit code capacity, the
\* codes lzw_compress emits, each replaced by the byte string the dictionary
\* maps to it and concatenated in order, give back the input.
C7_CodesReproduceInput ==
  (alg = "lzw" /\ pc = "done") => Decoded(dictionary, encoded) = text_bytes

\* lzw_compress has returned on an input that took next_code past 2^12 and
\* emitted a code that 12 bits do not hold
C7_Witness ==
  /\ alg = "lzw" /\ pc = "done"
  /\ next_code > 2 ^ CodeWidth
  /\ \E k \in 1..Len(encoded) : encoded[k] >= 2 ^ CodeWidth

\* C8: for every input of two or more distinct symbols, a symbol of
\* strictly greater frequency never has a strictly longer Huffman code than
\* one of smaller frequency; for b"AAAAABBBCC", A has a 1-bit code, B and C
\* longer ones, and the encoded length before padding, the sum over the
\* symbols of frequency times code length, is at most 20 bits.
C8_FrequentSymbolsShorter ==
  (alg = "huffman" /\ pc = "done"
     /\ Cardinality(Symbols(text_bytes)) >= 2) =>
    /\ \A a, b \in Symbols(text_bytes) :
         Occurrences(text_bytes, a) > Occurrences(text_bytes, b)
           => Len(code_table[a]) <= Len(code_table[b])
    /\ text_bytes = <<65, 65, 65, 65, 65, 66, 66, 66, 67, 67>> =>
         /\ Len(code_table[65]) = 1
         /\ Len(code_table[66]) > 1
         /\ Len(code_table[67]) > 1
         /\ Len(bits) = CodeLengthSum(text_bytes, code_table, 1, Len(text_bytes))
         /\ Len(bits) <= 20

\* huffman_compress has returned on b"AAAAABBBCC"
C8_Witness ==
  /\ alg = "huffman" /\ pc = "done"
  /\ text_bytes = <<65, 65, 65, 65, 65, 66, 66, 66, 67, 67>>
  /\ Len(code_table[65]) < Len(code_table[67])

\* C9: in the narrowing loop of arithmetic_compress, after every processed
\* symbol of a non-empty input of any length, 0 <= low < high <= 1; the
\* interval never collapses, and the final interval has positive width.
C9_IntervalNeverCollapses ==
  (alg = "arithmetic" /\ i > 0) =>
    /\ DecLe(Decimal(0), low)
    /\ DecLt(low, high)
    /\ DecLe(high, Decimal(1))

\* the dictionary holds the 256 single-byte strings under the codes 0..255
\* and, in all, one string for each of the codes 0..next_code-1
DictionaryState ==
  alg = "lzw" =>
    /\ \A b \in 0..(FirstCode - 1) :
         <<b>> \in DOMAIN dictionary /\ dictionary[<<b>>] = b
    /\ {dictionary[k] : k \in DOMAIN dictionary} = 0..(next_code - 1)
    /\ Cardinality(DOMAIN dictionary) = next_code

\* a step keeps every entry as it is, and either leaves the dictionary and
\* next_code alone or adds one string that was absent, under the code
\* next_code, and increments next_code
DictionaryStep ==
  alg = "lzw" =>
    /\ \A k \in DOMAIN dictionary :
         k \in DOMAIN dictionary' /\ dictionary'[k] = dictionary[k]
    /\ \/ dictionary' = dictionary /\ next_code' = next_code
       \/ \E key \in DOMAIN dictionary' \ DOMAIN dictionary :
            /\ DOMAIN dictionary' = DOMAIN dictionary \cup {key}
            /\ dictionary'[key] = next_code
            /\ next_code' = next_code + 1

\* C10: at every point of lzw_compress's loop the dictionary holds the 256
\* single-byte strings under the codes 0..255 and the strings added so far
\* under the consecutive codes 256..next_code-1 in the order of insertion;
\* no entry is ever removed or reassigned, every inserted string was absent
\* before, so the mapping stays injective and next_code is 256 plus the
\* number of inserted entries.
C10_DictionaryWriteOnce == []DictionaryState /\ [][DictionaryStep]_vars

\* the loop has inserted three or more strings and is matching one of them
C10_Witness ==
  /\ alg = "lzw" /\ pc = "loop"
  /\ next_code >= FirstCode + 3
  /\ Len(s) >= 2

=============================================================================
